---- MODULE Spec2Model ----
(***************************************************************************)
(* A model of pve-cslb, the central scheduling load balancer for Proxmox.  *)
(*                                                                         *)
(* The specifications share the variables below.                           *)
(*   SpecConfig  the Config object: the percent_cpu / percent_mem setters  *)
(*               and balance_resource_weights (src/src/pve_cslb/config.py) *)
(*   Spec        one pass of the runner: the telemetry loop, the balance   *)
(*               test, the classification, the planner loop and the        *)
(*               submission loop (workload_balancer.py, runner.py)         *)
(*   SpecMain    main from its configuration section on: the config file,  *)
(*               the environment and the command line, then the pass       *)
(*   SpecExample, SpecPlanner, SpecPlannerFair, SpecOverload               *)
(*               the pass over other clusters: those of the worked         *)
(*               example, nodes with workloads of equal weight (the last   *)
(*               under weak fairness of the planner), an overloaded node   *)
(*                                                                         *)
(* Arithmetic.  The program computes in binary floating point; the model   *)
(* computes in exact rationals kept as integers:                           *)
(*   proportions      in units of 1/One                                    *)
(*   CPU quantities   in units of 1/CpuScale MHz (a load average or a CPU  *)
(*                    fraction is given in thousandths, and the mean of a  *)
(*                    load-average triplet is their sum over 3 * 1000)     *)
(*   mean, stdev      as fractions compared by cross-multiplication        *)
(* so a comparison or a rounding that the program decides within one unit  *)
(* in the last place of a double is decided here as real arithmetic does.  *)
(***************************************************************************)
EXTENDS Integers, Sequences, FiniteSets, TLC

VARIABLES
    conf,                 \* the Config object (lb_config)
    norm_in,              \* the (_percent_cpu, _percent_mem) pair the last setter handed to balance_resource_weights
    pc,                   \* the position of the pass
    node_states,          \* get_migration_candidates: node_states, in insertion order
    api_nodes,            \* how many entries of pve.nodes.get() the loop has consumed
    candidates,           \* get_migration_candidates: candidates["source"], candidates["destination"]
    migration_proposals,  \* get_migration_candidates: migration_proposals
    posts,                \* every migrate.post call made by do_migration, in order, with its outcome
    fetch_error,          \* the telemetry call that failed ("nodes", "status", "qemu", "lxc"), "none" so far
    layers                \* what main configures from: the config file, the environment, the parsed args

vars == <<conf, norm_in, pc, node_states, api_nodes, candidates, migration_proposals, posts,
          fetch_error, layers>>

-----------------------------------------------------------------------------
(* Units and program constants *)

\* The proportion 1 (config.py compares the sum of the proportions with 1), in model units.
One == 10
\* 0.5, the value both proportions are reset to when they are equal.
Half == 5
\* Config.__init__: _percent_cpu = 0.4, _percent_mem = 0.6, max_migrations = 5
DefaultPercentCpu == 4
DefaultPercentMem == 6
DefaultMaxMigrations == 5
\* The reciprocal of 0.001, the floor of a workload's cpu_used.
Milli == 1000
\* len(node_status["loadavg"]): the 1/5/15-minute triplet
LoadAvgLen == 3
CpuScale == LoadAvgLen * Milli

-----------------------------------------------------------------------------
(* Bounds of the model *)

\* Node weights of a two-node snapshot range over -MaxWeight..MaxWeight.
MaxWeight == 12

\* Values a setter is handed: from -MaxOver to One + MaxOver, in units of 1/One.
MaxOver == 5
\* The largest number of nodes pve.nodes.get() returns.
MaxNodes == 5
\* max_migrations ranges over 0..MaxCap and the default.
MaxCap == 1
\* The largest number of nodes in the clusters of the worked example.
ExampleNodes == 4

-----------------------------------------------------------------------------
(* Generic helpers *)

Min(a, b) == IF a <= b THEN a ELSE b

Max(a, b) == IF a >= b THEN a ELSE b

Range(s) == {s[k] : k \in DOMAIN s}

RECURSIVE SeqSum(_)
SeqSum(s) == IF s = <<>> THEN 0 ELSE Head(s) + SeqSum(Tail(s))

\* Python's round(x) for x = num / den, den # 0: round half to even.
round(num, den) ==
    LET n == IF den < 0 THEN -num ELSE num
        d == IF den < 0 THEN -den ELSE den
        q == n \div d
        r == n - q * d
    IN  IF 2 * r < d THEN q
        ELSE IF 2 * r > d THEN q + 1
        ELSE IF q % 2 = 0 THEN q ELSE q + 1

-----------------------------------------------------------------------------
(* Config: src/src/pve_cslb/config.py *)

\* Config.__init__.  The exclusion lists are Python lists (sequences).  text names
\* the scalar settings whose stored value is a str: the environment gives every
\* value as a string and setattr stores it unconverted; the number the string
\* spells is kept in the setting's field.
ConfigDefaults ==
    [ dry_run        |-> FALSE,
      exclude_nodes  |-> <<>>,
      exclude_vmids  |-> <<>>,
      exclude_types  |-> <<>>,
      tolerance      |-> [num |-> 1, den |-> 5],
      percent_cpu    |-> DefaultPercentCpu,
      percent_mem    |-> DefaultPercentMem,
      max_migrations |-> DefaultMaxMigrations,
      text           |-> {} ]

\* The stored value of a setting is a str.
IsText(c, var) == var \in c.text

\* str(n) for a workload id n, and the same id as YAML reads it when it is written
\* unquoted: an int.  The two are different list items.
str(n) == [text |-> TRUE, id |-> n]

YamlInt(n) == [text |-> FALSE, id |-> n]

\* A variant of the first block without the clamp to 1.
BalanceOverUnclamped(p) ==
    IF p.cpu + p.mem > One
    THEN IF p.cpu > p.mem THEN [cpu |-> p.cpu, mem |-> One - p.cpu]
         ELSE IF p.cpu < p.mem THEN [cpu |-> One - p.mem, mem |-> p.mem]
         ELSE [cpu |-> Half, mem |-> Half]
    ELSE p

\* The first block of balance_resource_weights: the sum exceeds 1.
\* Three successive ifs, each reading what the one before it stored.
BalanceOver(p) ==
    IF p.cpu + p.mem > One
    THEN LET a == IF p.cpu > p.mem
                  THEN [cpu |-> Min(p.cpu, One), mem |-> One - Min(p.cpu, One)]
                  ELSE p
             b == IF a.cpu < a.mem
                  THEN [cpu |-> One - Min(a.mem, One), mem |-> Min(a.mem, One)]
                  ELSE a
         IN  IF b.cpu = b.mem THEN [cpu |-> Half, mem |-> Half] ELSE b
    ELSE p

\* A variant that, in a deficit, raises the smaller proportion instead of the larger.
BalanceUnderRaiseSmaller(p) ==
    IF p.cpu + p.mem < One
    THEN IF p.cpu > p.mem THEN [cpu |-> p.cpu, mem |-> One - p.cpu]
         ELSE IF p.mem > p.cpu THEN [cpu |-> One - p.mem, mem |-> p.mem]
         ELSE [cpu |-> Half, mem |-> Half]
    ELSE p

\* A variant that leaves a deficit alone.
BalanceUnderSkipped(p) == p

\* The second block of balance_resource_weights: the sum is below 1.
BalanceUnder(p) ==
    IF p.cpu + p.mem < One
    THEN LET a == IF p.cpu > p.mem
                  THEN [cpu |-> One - p.mem, mem |-> p.mem]
                  ELSE p
             b == IF a.mem > a.cpu
                  THEN [cpu |-> a.cpu, mem |-> One - a.cpu]
                  ELSE a
         IN  IF b.cpu = b.mem THEN [cpu |-> Half, mem |-> Half] ELSE b
    ELSE p

\* Config.balance_resource_weights, on the pair (_percent_cpu, _percent_mem)
balance_resource_weights(p) == BalanceUnder(BalanceOver(p))

\* The values a caller assigns to a proportion.
PercentInputs == (0 - MaxOver) .. (One + MaxOver)

\* Config.percent_cpu setter: store, then normalise
SetPercentCpu(x) ==
    LET p == [cpu |-> x, mem |-> conf.percent_mem]
        q == balance_resource_weights(p)
    IN  /\ norm_in' = p
        /\ conf' = [conf EXCEPT !.percent_cpu = q.cpu, !.percent_mem = q.mem]
        /\ UNCHANGED <<pc, node_states, api_nodes, candidates, migration_proposals, posts, fetch_error, layers>>

\* Config.percent_mem setter: store, then normalise
SetPercentMem(x) ==
    LET p == [cpu |-> conf.percent_cpu, mem |-> x]
        q == balance_resource_weights(p)
    IN  /\ norm_in' = p
        /\ conf' = [conf EXCEPT !.percent_cpu = q.cpu, !.percent_mem = q.mem]
        /\ UNCHANGED <<pc, node_states, api_nodes, candidates, migration_proposals, posts, fetch_error, layers>>

NoCandidates == [source |-> {}, destination |-> {}]

\* No config file was named and the default one does not exist, the environment
\* sets nothing, the command line gives no option.  It also stands for the layers
\* once the configuration section is over: main does not read them again.
NoLayers ==
    [ file |-> [named |-> "none", status |-> "missing", items |-> <<>>],
      env  |-> <<>>,
      args |-> [dry_run |-> FALSE] ]

InitConfig ==
    /\ conf = ConfigDefaults
    /\ norm_in = [cpu |-> DefaultPercentCpu, mem |-> DefaultPercentMem]
    /\ pc = "config"
    /\ node_states = <<>>
    /\ api_nodes = 0
    /\ candidates = NoCandidates
    /\ migration_proposals = <<>>
    /\ posts = <<>>
    /\ fetch_error = "none"
    /\ layers = NoLayers

AssignPercentCpu == \E x \in PercentInputs : SetPercentCpu(x)

AssignPercentMem == \E x \in PercentInputs : SetPercentMem(x)

NextConfig == AssignPercentCpu \/ AssignPercentMem

SpecConfig == InitConfig /\ [][NextConfig]_vars

-----------------------------------------------------------------------------
(* Telemetry: what the Proxmox API answers *)

\* A workload entry of nodes(n).qemu.get() / nodes(n).lxc.get().  cpu is the CPU
\* load fraction in thousandths; maxmem and mem are in the model's memory unit.
ApiWorkload(slot, name, status, cpus, cpu, maxmem, mem) ==
    [ slot |-> slot, name |-> name, status |-> status,
      cpus |-> cpus, cpu |-> cpu, maxmem |-> maxmem, mem |-> mem ]

\* A node's answers: nodes(n).status.get(), nodes(n).qemu.get(), nodes(n).lxc.get().
\* loadavg is in thousandths.
LightNode ==
    [ status |-> [ mhz |-> 2, cores |-> 4, loadavg |-> <<500, 1000, 1500>>,
                   mem_total |-> 8, mem_used |-> 2, mem_free |-> 6, ksm |-> 0 ],
      qemu   |-> << ApiWorkload(1, "web", "running", 2, 250, 2, 1) >>,
      lxc    |-> << >> ]

TightNode ==
    [ status |-> [ mhz |-> 2, cores |-> 1, loadavg |-> <<0, 0, 0>>,
                   mem_total |-> 4, mem_used |-> 1, mem_free |-> 2, ksm |-> 0 ],
      qemu   |-> << >>,
      lxc    |-> << ApiWorkload(1, "dns", "running", 1, 0, 1, 1) >> ]

BusyNode ==
    [ status |-> [ mhz |-> 2, cores |-> 4, loadavg |-> <<3000, 3000, 3000>>,
                   mem_total |-> 8, mem_used |-> 5, mem_free |-> 3, ksm |-> 1 ],
      qemu   |-> << ApiWorkload(1, "db", "running", 2, 500, 4, 2),
                    ApiWorkload(3, "old", "stopped", 1, 0, 1, 0) >>,
      lxc    |-> << ApiWorkload(2, "cache", "running", 1, 100, 6, 1) >> ]

HotNode ==
    [ status |-> [ mhz |-> 2, cores |-> 4, loadavg |-> <<3000, 3050, 3100>>,
                   mem_total |-> 8, mem_used |-> 6, mem_free |-> 2, ksm |-> 0 ],
      qemu   |-> << ApiWorkload(1, "app", "running", 2, 1000, 2, 1) >>,
      lxc    |-> << >> ]

NodeProfiles == {LightNode, TightNode, BusyNode, HotNode}

\* BusyNode with one more container, "bulk", listed before "cache": the two weigh
\* the same (CPU 0.1 of one core, memory a sixth of the maximum), and "bulk" holds
\* three times the memory.
CrowdedNode ==
    [ status |-> BusyNode.status,
      qemu   |-> BusyNode.qemu,
      lxc    |-> << ApiWorkload(4, "bulk", "running", 1, 100, 18, 3) >> \o BusyNode.lxc ]

PlannerProfiles == NodeProfiles \cup {CrowdedNode}

\* A node whose load average exceeds its core count (1.25 runnable tasks on one
\* core), as on any machine with more runnable tasks than cores: cpu_free is
\* negative.  Clock, cores and total memory are positive; loads, used and shared
\* memory are non-negative.
OverloadedNode ==
    [ status |-> [ mhz |-> 2, cores |-> 1, loadavg |-> <<1250, 1250, 1250>>,
                   mem_total |-> 8, mem_used |-> 2, mem_free |-> 6, ksm |-> 0 ],
      qemu   |-> << ApiWorkload(1, "job", "running", 1, 1000, 2, 1) >>,
      lxc    |-> << >> ]

OverloadProfiles == {LightNode, HotNode, OverloadedNode}

\* The nodes of the worked example: weights 150, 80 and 40 under the default
\* proportions.  A weight below 100 needs a negative term: here KSM shares more
\* memory than the node has, so that mem_total - (mem_used + ksm) is negative.
\* ExampleA is half loaded (w_cpu 80, w_mem 70) and runs a VM of weight 40 and a
\* container of weight 19.
ExampleA ==
    [ status |-> [ mhz |-> 2, cores |-> 4, loadavg |-> <<2000, 2000, 2000>>,
                   mem_total |-> 7, mem_used |-> 1, mem_free |-> 6, ksm |-> 0 ],
      qemu   |-> << ApiWorkload(1, "big", "running", 2, 500, 4, 2) >>,
      lxc    |-> << ApiWorkload(2, "small", "running", 1, 100, 4, 1) >> ]

\* Weight 80 (w_cpu 140, w_mem -60) with the given free memory.
ExampleB(mem_free) ==
    [ status |-> [ mhz |-> 2, cores |-> 7, loadavg |-> <<5000, 5000, 5000>>,
                   mem_total |-> 4, mem_used |-> 2, mem_free |-> mem_free, ksm |-> 6 ],
      qemu   |-> << >>,
      lxc    |-> << ApiWorkload(1, "ntp", "running", 1, 0, 1, 1) >> ]

\* Weight 40 (w_cpu 100, w_mem -60) with the given free memory.
ExampleC(mem_free) ==
    [ status |-> [ mhz |-> 2, cores |-> 5, loadavg |-> <<3000, 3000, 3000>>,
                   mem_total |-> 4, mem_used |-> 2, mem_free |-> mem_free, ksm |-> 6 ],
      qemu   |-> << >>,
      lxc    |-> << ApiWorkload(1, "log", "running", 1, 0, 1, 1) >> ]

\* Each of B and C with room for ExampleA's container (mem_free 2 > 1) and
\* without (mem_free 1), and a node of weight 120.
ExampleProfiles ==
    {ExampleA, ExampleB(2), ExampleB(1), ExampleC(2), ExampleC(1), TightNode}

\* The cluster-wide id of the workload in a node's slot.
VmidOf(node_name, slot) == 100 + 10 * node_name + slot

-----------------------------------------------------------------------------
(* WorkloadBalancer: src/src/pve_cslb/workload_balancer.py *)

\* get_node_state: cpu_total, cpu_used, cpu_free (units of 1/CpuScale MHz)
NodeCpuTotal(st) == st.mhz * st.cores * CpuScale

NodeCpuUsed(st) == st.mhz * SeqSum(st.loadavg)

NodeCpuFree(st) == NodeCpuTotal(st) - NodeCpuUsed(st)

\* get_node_state: mem_free_no_ksm
NodeMemFreeNoKsm(st) == st.mem_total - (st.mem_used + st.ksm)

\* get_node_state divides by cpu_free and by mem_free_no_ksm: ZeroDivisionError
NodeStateRaises(st) == NodeCpuFree(st) = 0 \/ NodeMemFreeNoKsm(st) = 0

\* get_node_state: (weight, mem_free, cpu_free), with
\* weight = round(percent_cpu * (cpu_total / cpu_free) * 100
\*                + percent_mem * (mem_total / mem_free_no_ksm) * 100)
get_node_state(st, c) ==
    LET cf == NodeCpuFree(st)
        mf == NodeMemFreeNoKsm(st)
    IN  [ weight   |-> round(100 * (c.percent_cpu * NodeCpuTotal(st) * mf
                                    + c.percent_mem * st.mem_total * cf),
                             One * cf * mf),
          mem_free |-> st.mem_free,
          cpu_free |-> cf ]

\* One pass of a loop of get_node_workloads over a list the API returned:
\* workloads whose str(vmid) is an item of exclude_vmids and workloads that are
\* not running are skipped, the rest get their kind.  The key of a kept workload
\* is str(vmid); the model names it by the number.
KeepWorkloads(listed, node_name, kind, c) ==
    LET Kept(w) == /\ str(VmidOf(node_name, w.slot)) \notin Range(c.exclude_vmids)
                   /\ w.status = "running"
        Tag(w) == [ vmid |-> VmidOf(node_name, w.slot), name |-> w.name, kind |-> kind,
                    status |-> w.status,
                    cpus |-> w.cpus, cpu |-> w.cpu, maxmem |-> w.maxmem, mem |-> w.mem ]
        kept == SelectSeq(listed, Kept)
    IN  [k \in 1..Len(kept) |-> Tag(kept[k])]

\* get_node_workloads: the qemu list unless qemu is an excluded type, then the
\* lxc list unless lxc is one, in the order of insertion into the dict.
get_node_workloads(prof, node_name, c) ==
    (IF "qemu" \notin Range(c.exclude_types)
     THEN KeepWorkloads(prof.qemu, node_name, "qemu", c) ELSE <<>>)
    \o
    (IF "lxc" \notin Range(c.exclude_types)
     THEN KeepWorkloads(prof.lxc, node_name, "lxc", c) ELSE <<>>)

\* get_workload_state: cpu_used = cpu_mhz * cpu_load, floored at 0.001
WorkloadCpuUsed(st, w) ==
    LET cu == st.mhz * w.cpu * LoadAvgLen
    IN  IF cu * Milli <= CpuScale THEN CpuScale \div Milli ELSE cu

WorkloadCpuMax(st, w) == st.mhz * w.cpus * CpuScale

\* get_workload_state: (weight, mem_used, cpu_used), with
\* weight = round(percent_cpu * (cpu_used / cpu_max) * 100
\*                + percent_mem * (mem_used / mem_max) * 100)
get_workload_state(st, w, c) ==
    LET cu == WorkloadCpuUsed(st, w)
        cm == WorkloadCpuMax(st, w)
    IN  [ weight   |-> round(100 * (c.percent_cpu * cu * w.maxmem
                                    + c.percent_mem * w.mem * cm),
                             One * cm * w.maxmem),
          mem_used |-> w.mem,
          cpu_used |-> cu ]

\* get_migration_candidates, lines 196-207: every kept workload updated with its
\* weight, mem_used and (under the key cpu_max) its cpu_used.
WeighedWorkloads(prof, node_name, c) ==
    LET ws == get_node_workloads(prof, node_name, c)
    IN  [k \in 1..Len(ws) |->
            LET s == get_workload_state(prof.status, ws[k], c)
            IN  [ vmid |-> ws[k].vmid, name |-> ws[k].name, kind |-> ws[k].kind,
                  status |-> ws[k].status,
                  weight |-> s.weight, mem_used |-> s.mem_used, cpu_max |-> s.cpu_used ]]

\* get_migration_candidates, lines 187-214: the node_states entry of one node.
NodeEntry(prof, node_name, c) ==
    LET s  == get_node_state(prof.status, c)
        ws == WeighedWorkloads(prof, node_name, c)
    IN  [ name |-> node_name, weight |-> s.weight, mem_free |-> s.mem_free,
          cpu_free |-> s.cpu_free, workload_count |-> Len(ws), workloads |-> ws ]

\* A variant of the node filter that excludes no node.
NoNodeExcluded(node_name, c) == FALSE

\* `if node_name in self.conf.exclude_nodes`
IsExcludedNode(node_name, c) == node_name \in Range(c.exclude_nodes)

\* What a telemetry call of one iteration can do: every call answers ("none"), or
\* the first one to fail is nodes.get() (made once, as the loop starts),
\* nodes(n).status.get(), nodes(n).qemu.get() or nodes(n).lxc.get().
FetchFailures == {"none", "nodes", "status", "qemu", "lxc"}

\* A variant in which a failed telemetry call is logged and the loop moves on to
\* the next node.
AfterFetchErrorSkipsNode(call) == "fetch"

\* Where the pass stands after a telemetry call failed.  A failure of a workload
\* listing is caught in get_node_workloads, which logs it and calls exit(1); a
\* failure of nodes.get() or of status.get() is caught nowhere and leaves
\* get_migration_candidates and main.  Either way the pass is over.
AfterFetchError(call) == "aborted"

\* One iteration of `for node in self.pve.nodes.get()` over the answers of the
\* given profiles, for a cluster of at most limit nodes: an excluded node is skipped without a call, any other is read
\* and entered in node_states.  A ZeroDivisionError of get_node_state leaves
\* get_migration_candidates and ends the pass.
FetchNodeFrom(profiles, limit) ==
    /\ pc = "fetch"
    /\ api_nodes < limit
    /\ \E prof \in profiles, failing \in FetchFailures :
          LET node_name == api_nodes + 1
              excluded  == IsExcludedNode(node_name, conf)
          IN  /\ failing = "nodes" => api_nodes = 0 /\ node_states = <<>> /\ fetch_error = "none"
              /\ failing = "status" => ~excluded
              /\ failing = "qemu" => /\ ~excluded
                                     /\ ~NodeStateRaises(prof.status)
                                     /\ "qemu" \notin Range(conf.exclude_types)
              /\ failing = "lxc" => /\ ~excluded
                                    /\ ~NodeStateRaises(prof.status)
                                    /\ "lxc" \notin Range(conf.exclude_types)
              /\ IF failing = "nodes"
                 THEN /\ pc' = AfterFetchError(failing)
                      /\ fetch_error' = failing
                      /\ UNCHANGED <<api_nodes, node_states>>
                 ELSE /\ api_nodes' = node_name
                      /\ IF excluded
                         THEN UNCHANGED <<pc, node_states, fetch_error>>
                         ELSE IF failing # "none"
                         THEN /\ pc' = AfterFetchError(failing)
                              /\ fetch_error' = failing
                              /\ UNCHANGED node_states
                         ELSE IF NodeStateRaises(prof.status)
                         THEN pc' = "crashed" /\ UNCHANGED <<node_states, fetch_error>>
                         ELSE /\ node_states' = Append(node_states, NodeEntry(prof, node_name, conf))
                              /\ UNCHANGED <<pc, fetch_error>>
    /\ UNCHANGED <<conf, norm_in, candidates, migration_proposals, posts, layers>>

FetchNode == FetchNodeFrom(NodeProfiles, MaxNodes)

-----------------------------------------------------------------------------
(* Cluster statistics: statistics.mean and statistics.stdev of the node weights *)

NodeWeights(ns) == [k \in 1..Len(ns) |-> ns[k].weight]

WeightSum(ns) == SeqSum(NodeWeights(ns))

WeightSumSq(ns) == SeqSum([k \in 1..Len(ns) |-> ns[k].weight * ns[k].weight])

\* With n weights of sum S:  mean = S / n  and  stdev^2 = SpreadNum / (n * (n - 1)),
\* the sample variance, where SpreadNum = n * (sum of squares) - S^2 >= 0.
SpreadNum(ns) == Len(ns) * WeightSumSq(ns) - WeightSum(ns) * WeightSum(ns)

\* mean * tol > stdev, for tol = tol.num / tol.den.  Both sides squared once the
\* left one is known positive:  (S * tol.num)^2 * (n - 1) > SpreadNum * n * tol.den^2.
AllowanceExceedsStdev(ns, tol) ==
    LET n == Len(ns)
        a == WeightSum(ns) * tol.num
    IN  /\ a > 0
        /\ a * a * (n - 1) > SpreadNum(ns) * n * tol.den * tol.den

\* w < mean
BelowMean(w, ns) == Len(ns) * w < WeightSum(ns)

\* w > mean + stdev:  n * w - S > 0  and  (n * w - S)^2 * (n - 1) > n * SpreadNum.
AboveMeanPlusStdev(w, ns) ==
    LET n == Len(ns)
        d == n * w - WeightSum(ns)
    IN  /\ d > 0
        /\ d * d * (n - 1) > n * SpreadNum(ns)

\* w > mean - stdev, a variant of the source test with the sign of stdev flipped.
AboveMeanMinusStdev(w, ns) ==
    LET n == Len(ns)
        d == n * w - WeightSum(ns)
    IN  \/ d >= 0
        \/ d * d * (n - 1) < n * SpreadNum(ns)

-----------------------------------------------------------------------------
(* get_migration_candidates: the balance test and the classification *)

\* A variant of the balance test that never finds the cluster balanced.
NeverBalanced(ns, c) == FALSE

\* `if w_tolerance > w_stdev`, with w_tolerance = w_mean * conf.tolerance
ClusterIsBalanced(ns, c) == AllowanceExceedsStdev(ns, c.tolerance)

\* `if state["weight"] < w_mean`
IsDestination(state, ns) == BelowMean(state.weight, ns)

\* A variant of the source test: weight > w_mean.
IsSourceAboveMean(state, ns) == Len(ns) * state.weight > WeightSum(ns)

\* A variant of the source test: weight > w_mean - w_stdev.
IsSourceSignFlipped(state, ns) == AboveMeanMinusStdev(state.weight, ns)

\* A variant of the source test: weight > w_mean + w_stdev / 2.
IsSourceHalfStdev(state, ns) ==
    LET n == Len(ns)
        d == n * state.weight - WeightSum(ns)
    IN  /\ d > 0
        /\ 4 * d * d * (n - 1) > n * SpreadNum(ns)

\* `if state["weight"] > w_mean + w_stdev`
IsSource(state, ns) == AboveMeanPlusStdev(state.weight, ns)

\* The loop over node_states.items() that fills candidates.
Classify(ns) ==
    [ source      |-> {ns[k].name : k \in {j \in 1..Len(ns) : IsSource(ns[j], ns)}},
      destination |-> {ns[k].name : k \in {j \in 1..Len(ns) : IsDestination(ns[j], ns)}} ]

\* The end of the node loop, lines 216-246.  statistics.mean raises on no weight
\* and statistics.stdev on fewer than two; a tolerance that is a str makes
\* w_mean * tolerance, or the round() of it in the log line, raise TypeError; a
\* balanced cluster returns [] and the runner, finding no candidate, exits.
Analyze ==
    /\ pc = "fetch"
    /\ api_nodes >= 1
    /\ IF Len(node_states) < 2 \/ IsText(conf, "tolerance")
       THEN pc' = "crashed" /\ UNCHANGED candidates
       ELSE IF ClusterIsBalanced(node_states, conf)
       THEN pc' = "done" /\ UNCHANGED candidates
       ELSE pc' = "plan" /\ candidates' = Classify(node_states)
    /\ UNCHANGED <<conf, norm_in, node_states, api_nodes, migration_proposals, posts, fetch_error, layers>>

-----------------------------------------------------------------------------
(* get_migration_candidates: the planner loop *)

\* In sorted(items, key=weight, reverse=reverse) the item at position j comes
\* before the item at position k: by its weight (the greater first under
\* reverse=True), and among equal weights by its position, for Python's sort is
\* stable, also under reverse=True.
Precedes(s, j, k, reverse) ==
    \/ IF reverse THEN s[j].weight > s[k].weight ELSE s[j].weight < s[k].weight
    \/ s[j].weight = s[k].weight /\ j < k

\* The sorted list: its i-th item is the one that i - 1 items come before.
StableSort(s, reverse) ==
    [ i \in 1..Len(s) |->
        s[CHOOSE k \in DOMAIN s :
              Cardinality({j \in DOMAIN s : Precedes(s, j, k, reverse)}) = i - 1] ]

\* A variant of sorted that always sorts in ascending order.
sortedAscending(s, reverse) == StableSort(s, FALSE)

\* A variant of sorted that is not stable: among equal weights the item seen last
\* comes first.
sortedLastSeenFirst(s, reverse) ==
    StableSort([k \in 1..Len(s) |-> s[Len(s) + 1 - k]], reverse)

\* A variant of sorted that always sorts in descending order.
sortedDescending(s, reverse) == StableSort(s, TRUE)

\* sorted(items, key=lambda x: x[1]["weight"], reverse=reverse)
sorted(s, reverse) == StableSort(s, reverse)

\* The items of candidates[...]: the pool's nodes in the order of node_states.
PoolItems(pool) == SelectSeq(node_states, LAMBDA st : st.name \in pool)

\* The `while` condition compares len(migration_proposals) with a str, once both
\* counts are positive: TypeError.
LoopConditionRaises ==
    /\ Cardinality(candidates.source) > 0
    /\ Cardinality(candidates.destination) > 0
    /\ IsText(conf, "max_migrations")

\* A variant of the loop condition with the cap off by one more.
LoopConditionLoose ==
    /\ Cardinality(candidates.source) > 0
    /\ Cardinality(candidates.destination) > 0
    /\ ~IsText(conf, "max_migrations")
    /\ Len(migration_proposals) <= conf.max_migrations + 1

\* A variant of the loop condition without the cap.
LoopConditionUncapped ==
    /\ Cardinality(candidates.source) > 0
    /\ Cardinality(candidates.destination) > 0
    /\ ~IsText(conf, "max_migrations")

\* The `while` condition, lines 250-254.
LoopCondition ==
    /\ Cardinality(candidates.source) > 0
    /\ Cardinality(candidates.destination) > 0
    /\ ~IsText(conf, "max_migrations")
    /\ Len(migration_proposals) <= conf.max_migrations

\* A variant of the capacity test that compares memory only.
FitsMemoryOnly(destination, workload) == destination.mem_free > workload.mem_used

\* The capacity test, lines 275-278.
Fits(destination, workload) ==
    /\ destination.mem_free > workload.mem_used
    /\ destination.cpu_free > workload.cpu_max

\* A variant of the destination loop without the break: the last destination that
\* passes the capacity test is taken.
LastFit(dests, workload) ==
    LET fitting == {k \in 1..Len(dests) : Fits(dests[k], workload)}
    IN  IF fitting = {} THEN 0 ELSE CHOOSE k \in fitting : \A j \in fitting : k >= j

\* A variant of the destination loop that settles for the first destination when
\* none passes the capacity test.
FirstFitOrFirst(dests, workload) ==
    LET fitting == {k \in 1..Len(dests) : Fits(dests[k], workload)}
    IN  IF dests = <<>> THEN 0
        ELSE IF fitting = {} THEN 1
        ELSE CHOOSE k \in fitting : \A j \in fitting : k <= j

\* The `for destination_name` loop with its break: the position of the first
\* destination that passes the capacity test, 0 when none does.
FirstFit(dests, workload) ==
    LET fitting == {k \in 1..Len(dests) : Fits(dests[k], workload)}
    IN  IF fitting = {} THEN 0 ELSE CHOOSE k \in fitting : \A j \in fitting : k <= j

MigrationSpec(source, destination, name, vmid, kind) ==
    [ source |-> source, destination |-> destination, name |-> name,
      vmid |-> vmid, kind |-> kind ]

\* One iteration of the `while` loop, lines 250-297: the condition, then the
\* body.  sorted(...)[0] of a source without workloads raises IndexError before
\* the source is deleted.
PlanIteration ==
    /\ pc = "plan"
    /\ LoopCondition \/ LoopConditionRaises
    /\ LET source == sorted(PoolItems(candidates.source), TRUE)[1]
       IN  IF LoopConditionRaises \/ source.workloads = <<>>
           THEN pc' = "crashed" /\ UNCHANGED <<candidates, migration_proposals>>
           ELSE LET workload == sorted(source.workloads, FALSE)[1]
                    dests    == sorted(PoolItems(candidates.destination), FALSE)
                    found    == FirstFit(dests, workload)
                IN  /\ UNCHANGED pc
                    /\ IF found = 0
                       THEN /\ candidates' = [candidates EXCEPT !.source = @ \ {source.name}]
                            /\ UNCHANGED migration_proposals
                       ELSE /\ candidates' =
                                 [ source      |-> candidates.source \ {source.name},
                                   destination |-> candidates.destination \ {dests[found].name} ]
                            /\ migration_proposals' =
                                 Append(migration_proposals,
                                        MigrationSpec(source.name, dests[found].name,
                                                      workload.name, workload.vmid,
                                                      workload.kind))
    /\ UNCHANGED <<conf, norm_in, node_states, api_nodes, posts, fetch_error, layers>>

\* A variant of the return in which the runner does not consult dry_run.
PlanReturnIgnoringDryRun ==
    /\ pc = "plan"
    /\ ~LoopCondition
    /\ ~LoopConditionRaises
    /\ pc' = IF Len(migration_proposals) < 1 THEN "done" ELSE "execute"
    /\ UNCHANGED <<conf, norm_in, node_states, api_nodes, candidates, migration_proposals, posts, fetch_error, layers>>

\* The loop condition fails: get_migration_candidates returns, and the runner
\* (runner.py lines 363-377) exits on an empty list or on dry_run, and otherwise
\* starts submitting.
PlanReturn ==
    /\ pc = "plan"
    /\ ~LoopCondition
    /\ ~LoopConditionRaises
    /\ pc' = IF Len(migration_proposals) < 1 THEN "done"
             ELSE IF ~conf.dry_run THEN "execute"
             ELSE "done"
    /\ UNCHANGED <<conf, norm_in, node_states, api_nodes, candidates, migration_proposals, posts, fetch_error, layers>>

-----------------------------------------------------------------------------
(* do_migration and the runner's submission loop *)

\* What a migrate.post call can do: return a UPID, raise ResourceException
\* ("locked"), raise ConnectionError ("connection"), or raise anything else
\* (an AuthenticationError, a read timeout: "error").
Outcomes == {"ok", "locked", "connection", "error"}

\* A variant of the dispatch with the liveness flags exchanged.
OnlineFlagSwapped(kind) == IF kind = "lxc" THEN 1 ELSE 0

\* `match spec.kind`: online=0 for lxc, online=1 for qemu
OnlineFlag(kind) == IF kind = "lxc" THEN 0 ELSE 1

\* The migrate.post call of do_migration for a spec, with what came of it.
MigratePost(spec, outcome) ==
    [ node |-> spec.source, kind |-> spec.kind, vmid |-> spec.vmid,
      target |-> spec.destination, online |-> OnlineFlag(spec.kind),
      outcome |-> outcome ]

\* A variant in which a failed submission ends the loop.
AfterSubmissionFailFast(outcome, submitted) ==
    IF outcome = "error" THEN "crashed"
    ELSE IF outcome # "ok" \/ submitted = Len(migration_proposals) THEN "done"
    ELSE "execute"

\* A variant in which a batch with a failed submission ends with exit(1).
AfterSubmissionEscalating(outcome, submitted) ==
    IF outcome = "error" THEN "crashed"
    ELSE IF submitted = Len(migration_proposals)
    THEN IF outcome # "ok" \/ \E k \in DOMAIN posts : posts[k].outcome # "ok"
         THEN "exited" ELSE "done"
    ELSE "execute"

\* Where the runner stands once do_migration has made its call: ResourceException
\* and ConnectionError are caught (return False, None) and the loop goes on, any
\* other exception leaves main; after the last spec the runner exits.
AfterSubmission(outcome, submitted) ==
    IF outcome = "error" THEN "crashed"
    ELSE IF submitted = Len(migration_proposals) THEN "done"
    ELSE "execute"

\* One iteration of `for migration_candidate in migration_candidates`: the next
\* spec is submitted.  A kind other than lxc / qemu raises TypeError before any
\* call.
DoMigration ==
    /\ pc = "execute"
    /\ Len(posts) < Len(migration_proposals)
    /\ LET spec == migration_proposals[Len(posts) + 1]
       IN  IF spec.kind \notin {"lxc", "qemu"}
           THEN pc' = "crashed" /\ UNCHANGED posts
           ELSE \E outcome \in Outcomes :
                   /\ posts' = Append(posts, MigratePost(spec, outcome))
                   /\ pc' = AfterSubmission(outcome, Len(posts) + 1)
    /\ UNCHANGED <<conf, norm_in, node_states, api_nodes, candidates, migration_proposals, fetch_error, layers>>

\* The status of the exit() call that ends the process at a position: exit(0) on
\* lines 365, 374 and 377 of the runner ("done"), exit(1) in
\* WorkloadBalancer.__init__ ("exited").
ExitCalls == [done |-> 0, exited |-> 1]

-----------------------------------------------------------------------------
(* One pass *)

Tolerances == { [num |-> 1, den |-> 5], [num |-> 4, den |-> 5] }

\* The exclusion lists of a configuration: none, a node, a workload id per node
\* given as a string (command line, environment, quoted in the file), the same
\* ids written unquoted in the YAML file, a type.
Exclusions ==
    { [nodes |-> <<>>, vmids |-> <<>>, types |-> <<>>],
      [nodes |-> <<2>>, vmids |-> <<>>, types |-> <<>>],
      [nodes |-> <<>>, vmids |-> [n \in 1..MaxNodes |-> str(VmidOf(n, 1))], types |-> <<>>],
      [nodes |-> <<>>, vmids |-> [n \in 1..MaxNodes |-> YamlInt(VmidOf(n, 1))], types |-> <<>>],
      [nodes |-> <<>>, vmids |-> <<>>, types |-> <<"lxc">>] }

\* The configurations a pass runs under: the Config object after the runner's
\* configuration section.
PassConfigs ==
    { [ ConfigDefaults EXCEPT !.tolerance = tol, !.max_migrations = cap, !.dry_run = dry,
                              !.exclude_nodes = ex.nodes, !.exclude_vmids = ex.vmids,
                              !.exclude_types = ex.types ] :
        tol \in Tolerances, cap \in 0..MaxCap, dry \in BOOLEAN, ex \in Exclusions }

Init ==
    /\ conf \in PassConfigs
    /\ norm_in = [cpu |-> conf.percent_cpu, mem |-> conf.percent_mem]
    /\ pc = "fetch"
    /\ node_states = <<>>
    /\ api_nodes = 0
    /\ candidates = NoCandidates
    /\ migration_proposals = <<>>
    /\ posts = <<>>
    /\ fetch_error = "none"
    /\ layers = NoLayers

Next == FetchNode \/ Analyze \/ PlanIteration \/ PlanReturn \/ DoMigration

Spec == Init /\ [][Next]_vars

-----------------------------------------------------------------------------
(* One pass over the clusters of the worked example *)

FetchExampleNode == FetchNodeFrom(ExampleProfiles, ExampleNodes)

\* The default tolerance 0.2 and no exclusions.
InitExample ==
    /\ Init
    /\ conf.tolerance = ConfigDefaults.tolerance
    /\ conf.exclude_nodes = <<>>
    /\ conf.exclude_vmids = <<>>
    /\ conf.exclude_types = <<>>

NextExample == FetchExampleNode \/ Analyze \/ PlanIteration \/ PlanReturn \/ DoMigration

SpecExample == InitExample /\ [][NextExample]_vars

-----------------------------------------------------------------------------
(* One pass over clusters in which a node runs workloads of equal weight *)

FetchPlannerNode == FetchNodeFrom(PlannerProfiles, MaxNodes)

\* The default tolerance 0.2, no exclusions, dry_run off.
InitPlanner ==
    /\ Init
    /\ conf.tolerance = ConfigDefaults.tolerance
    /\ conf.exclude_nodes = <<>>
    /\ conf.exclude_vmids = <<>>
    /\ conf.exclude_types = <<>>
    /\ ~conf.dry_run

NextPlanner == FetchPlannerNode \/ Analyze \/ PlanIteration \/ PlanReturn \/ DoMigration

SpecPlanner == InitPlanner /\ [][NextPlanner]_vars

\* Clusters of lightly loaded nodes and nodes with workloads of equal weight.
FetchCrowdedNode == FetchNodeFrom({LightNode, CrowdedNode}, MaxNodes)

NextCrowded == FetchCrowdedNode \/ Analyze \/ PlanIteration \/ PlanReturn \/ DoMigration

\* get_migration_candidates is sequential code: once the classification is made
\* the loop runs on, iteration after iteration, until its condition fails and the
\* function returns.
SpecPlannerFair ==
    InitPlanner /\ [][NextCrowded]_vars /\ WF_vars(PlanIteration) /\ WF_vars(PlanReturn)

-----------------------------------------------------------------------------
(* One pass over clusters in which a node is overloaded *)

FetchOverloadedNode == FetchNodeFrom(OverloadProfiles, MaxNodes)

NextOverload == FetchOverloadedNode \/ Analyze \/ PlanIteration \/ PlanReturn \/ DoMigration

SpecOverload == InitPlanner /\ [][NextOverload]_vars

-----------------------------------------------------------------------------
(* The configuration section of main: src/src/pve_cslb/runner.py *)

\* A layer is a record of the settings it gives; a setting it does not give is
\* not a field of it.
Gives(layer, key) == key \in DOMAIN layer

\* The scalar settings of the `for var in [...]` loop of lines 261-274, in its
\* order.  The proxmox_* settings, which only choose the API endpoint, are left
\* out.
ScalarVars == <<"tolerance", "percent_cpu", "percent_mem", "max_migrations", "dry_run">>

\* The keys of a config file, in the order the file lists them.
FileKeys == ScalarVars \o <<"exclude_nodes", "exclude_vmids", "exclude_types">>

\* setattr(lb_config, var, value) raises: the percent_cpu / percent_mem setters
\* run balance_resource_weights, which adds the str to a float (TypeError).
SetattrRaises(var, is_text) == is_text /\ var \in {"percent_cpu", "percent_mem"}

\* setattr(lb_config, var, value) for a value that is a str (is_text) or not.
setattr(c, var, value, is_text) ==
    IF var = "percent_cpu"
    THEN LET q == balance_resource_weights([cpu |-> value, mem |-> c.percent_mem])
         IN  [c EXCEPT !.percent_cpu = q.cpu, !.percent_mem = q.mem]
    ELSE IF var = "percent_mem"
    THEN LET q == balance_resource_weights([cpu |-> c.percent_cpu, mem |-> value])
         IN  [c EXCEPT !.percent_cpu = q.cpu, !.percent_mem = q.mem]
    ELSE [c EXCEPT ![var] = value,
                   !.text = IF is_text THEN @ \cup {var} ELSE @ \ {var}]

\* `for k, v in config.items(): setattr(lb_config, k, v)`
RECURSIVE ApplyItems(_, _, _)
ApplyItems(c, items, keys) ==
    IF keys = <<>> THEN c
    ELSE ApplyItems(IF Gives(items, Head(keys))
                    THEN setattr(c, Head(keys), items[Head(keys)], FALSE)
                    ELSE c,
                    items, Tail(keys))

\* A variant in which no config file error ends main.
FileErrorNeverFatal(file) == FALSE

\* The config file ends main: a file that was named (--config-file or
\* CSLB_CONFIG_FILE) and cannot be opened, or a file that cannot be parsed, is
\* logged and re-raised; a file that parses to no mapping (an empty file) makes
\* config.items() raise AttributeError, which no clause catches.  Only the
\* missing default file is passed over.
FileErrorIsFatal(file) ==
    \/ file.status = "missing" /\ file.named # "none"
    \/ file.status \in {"unparsable", "empty"}

\* Lines 219-246.
LoadConfigFile ==
    /\ pc = "load"
    /\ IF FileErrorIsFatal(layers.file)
       THEN pc' = "crashed" /\ UNCHANGED conf
       ELSE /\ pc' = "scalars"
            /\ conf' = IF layers.file.status = "ok"
                       THEN ApplyItems(conf, layers.file.items, FileKeys)
                       ELSE conf
    /\ UNCHANGED <<norm_in, node_states, api_nodes, candidates, migration_proposals, posts,
                   fetch_error, layers>>

\* The loop of lines 261-294 from its k-th variable on: the environment's value,
\* a str, is stored unconverted; then the value of args, unless it is None.
\* argparse gives a store_true flag that was not on the command line as False.
RECURSIVE ConfigureFrom(_, _, _, _)
ConfigureFrom(c, k, env, args) ==
    IF k > Len(ScalarVars) THEN [raised |-> FALSE, conf |-> c]
    ELSE LET var == ScalarVars[k]
         IN  IF Gives(env, var) /\ SetattrRaises(var, TRUE)
             THEN [raised |-> TRUE, conf |-> c]
             ELSE LET c1 == IF Gives(env, var) THEN setattr(c, var, env[var], TRUE) ELSE c
                      c2 == IF Gives(args, var) THEN setattr(c1, var, args[var], FALSE) ELSE c1
                  IN  ConfigureFrom(c2, k + 1, env, args)

\* Lines 261-294.
ConfigureScalars ==
    /\ pc = "scalars"
    /\ LET r == ConfigureFrom(conf, 1, layers.env, layers.args)
       IN  /\ conf' = r.conf
           /\ pc' = IF r.raised THEN "crashed" ELSE "lists"
    /\ UNCHANGED <<norm_in, node_states, api_nodes, candidates, migration_proposals, posts,
                   fetch_error, layers>>

\* The three exclusion lists with the names of what changes them: the list's own
\* name is also that of the environment variable that adds to it.
ListSettings ==
    << [list |-> "exclude_nodes", env_in |-> "include_nodes",
        arg_ex |-> "exclude_node", arg_in |-> "include_node"],
       [list |-> "exclude_vmids", env_in |-> "include_vmids",
        arg_ex |-> "exclude_vmid", arg_in |-> "include_vmid"],
       [list |-> "exclude_types", env_in |-> "include_types",
        arg_ex |-> "exclude_type", arg_in |-> "include_type"] >>

\* Lines 339-344: every item of args that is not in cnf_list is stored as
\* cnf_list + [item]; cnf_list is read once, before the loop.
RECURSIVE ExcludeFromArgs(_, _, _)
ExcludeFromArgs(cnf_list, items, stored) ==
    IF items = <<>> THEN stored
    ELSE ExcludeFromArgs(cnf_list, Tail(items),
                         IF Head(items) \notin Range(cnf_list)
                         THEN cnf_list \o <<Head(items)>>
                         ELSE stored)

\* Lines 322-329: the list without the items the environment includes again.
IncludeFromEnv(cnf_list, env_list) ==
    SelectSeq(cnf_list, LAMBDA item : item \notin Range(env_list))

\* list.remove(item): the first occurrence goes.
RECURSIVE RemoveFirst(_, _)
RemoveFirst(s, item) ==
    IF s = <<>> THEN <<>>
    ELSE IF Head(s) = item THEN Tail(s)
    ELSE <<Head(s)>> \o RemoveFirst(Tail(s), item)

\* Lines 348-353.
RECURSIVE IncludeFromArgs(_, _)
IncludeFromArgs(cnf_list, items) ==
    IF items = <<>> THEN cnf_list
    ELSE IncludeFromArgs(IF Head(items) \in Range(cnf_list)
                         THEN RemoveFirst(cnf_list, Head(items))
                         ELSE cnf_list,
                         Tail(items))

\* One exclusion list after the loop of lines 297-354: the environment's
\* exclusions are appended, then those of args; later iterations take out the
\* environment's inclusions, then those of args.
MergedList(c, env, args, k) ==
    LET l0 == c[k.list]
        l1 == IF Gives(env, k.list) THEN l0 \o env[k.list] ELSE l0
        l2 == IF Gives(args, k.arg_ex) THEN ExcludeFromArgs(l1, args[k.arg_ex], l1) ELSE l1
        l3 == IF Gives(env, k.env_in) THEN IncludeFromEnv(l2, env[k.env_in]) ELSE l2
    IN  IF Gives(args, k.arg_in) THEN IncludeFromArgs(l3, args[k.arg_in]) ELSE l3

\* Lines 297-354.
ConfigureLists ==
    /\ pc = "lists"
    /\ conf' = [conf EXCEPT
                  !.exclude_nodes = MergedList(conf, layers.env, layers.args, ListSettings[1]),
                  !.exclude_vmids = MergedList(conf, layers.env, layers.args, ListSettings[2]),
                  !.exclude_types = MergedList(conf, layers.env, layers.args, ListSettings[3])]
    /\ pc' = "connect"
    /\ UNCHANGED <<norm_in, node_states, api_nodes, candidates, migration_proposals, posts,
                   fetch_error, layers>>

\* Line 360, WorkloadBalancer.__init__: the API object is made, or the failure
\* to make it is logged and answered with exit(1).  From here on main reads
\* lb_config only.
Connect ==
    /\ pc = "connect"
    /\ \E connected \in BOOLEAN :
          pc' = IF connected THEN "fetch" ELSE "exited"
    /\ layers' = NoLayers
    /\ UNCHANGED <<conf, norm_in, node_states, api_nodes, candidates, migration_proposals,
                   posts, fetch_error>>

\* What each layer gives a scalar setting when it gives it.  The environment's
\* values are strings.
FileValues == [tolerance |-> [num |-> 4, den |-> 5], max_migrations |-> 0, dry_run |-> TRUE]

EnvValues == [tolerance |-> [num |-> 2, den |-> 5], max_migrations |-> 1, dry_run |-> TRUE]

ArgValues == [tolerance |-> [num |-> 1, den |-> 5], max_migrations |-> 1]

Only(values, keys) == [k \in keys |-> values[k]]

NamedFile(items) == [named |-> "cli", status |-> "ok", items |-> items]

\* The files main can meet: none named and no default file, a named file that
\* cannot be opened, cannot be parsed or is empty, a named file with settings.
BrokenFiles ==
    { [named |-> by, status |-> st, items |-> <<>>] :
        by \in {"cli", "env"}, st \in {"missing", "unparsable", "empty"} }

\* Layers that set scalars: any subset of the settings from each layer, --dry-run
\* on the command line or not.
ScalarLayers ==
    { [ file |-> f, env |-> Only(EnvValues, e), args |-> Only(ArgValues, a) @@ [dry_run |-> d] ] :
        f \in {NoLayers.file} \cup BrokenFiles
              \cup {NamedFile(Only(FileValues, fk)) : fk \in SUBSET DOMAIN FileValues},
        e \in SUBSET DOMAIN EnvValues,
        a \in SUBSET DOMAIN ArgValues,
        d \in BOOLEAN }

\* Layers that set the node exclusions, and the workload ids as a file and a
\* command line write them.
ListLayers ==
    { [ file |-> IF f = {} THEN NoLayers.file ELSE NamedFile(Only(lists, f)),
        env  |-> Only(lists, e),
        args |-> Only(lists, a) @@ [dry_run |-> FALSE] ] :
        lists \in { [exclude_nodes |-> <<2>>, exclude_node |-> x, include_nodes |-> <<2>>,
                     include_node |-> <<3>>] : x \in {<<3>>, <<3, 4>>, <<4, 5>>} }
                  \cup { [exclude_nodes |-> <<3>>, exclude_node |-> <<3, 4>>,
                          include_nodes |-> <<2>>, include_node |-> <<3>>] },
        f \in SUBSET {"exclude_nodes"},
        e \in SUBSET {"exclude_nodes", "include_nodes"},
        a \in SUBSET {"exclude_node", "include_node"} }
    \cup
    { [ file |-> NamedFile([exclude_vmids |-> <<YamlInt(VmidOf(1, 1))>>]),
        env  |-> <<>>,
        args |-> Only([exclude_vmid |-> <<str(VmidOf(1, 1)), str(VmidOf(2, 1))>>], a)
                    @@ [dry_run |-> FALSE] ] :
        a \in SUBSET {"exclude_vmid"} }

\* Layers that set percent_cpu: 0.8 in the file, "0.5" in the environment, 0.3 on
\* the command line.
PercentLayers ==
    { [ file |-> IF f = {} THEN NoLayers.file ELSE NamedFile([percent_cpu |-> 8]),
        env  |-> Only([percent_cpu |-> Half], e),
        args |-> Only([percent_cpu |-> 3], a) @@ [dry_run |-> FALSE] ] :
        f \in SUBSET {"percent_cpu"},
        e \in SUBSET {"percent_cpu"},
        a \in SUBSET {"percent_cpu"} }

\* The first element of each valid pair the command line gives: --percent-cpu c
\* with --percent-mem 1 - c, for 0, 0.3, 0.5 and 1.
PairCpus == {0, 3, Half, One}

\* Layers whose command line gives both proportions, summing to 1, over the
\* defaults or over a file that sets percent_cpu to 0.8 (normalised to 0.8/0.2).
PairLayers ==
    { [ file |-> IF f = {} THEN NoLayers.file ELSE NamedFile([percent_cpu |-> 8]),
        env  |-> <<>>,
        args |-> [percent_cpu |-> c, percent_mem |-> One - c, dry_run |-> FALSE] ] :
        f \in SUBSET {"percent_cpu"},
        c \in PairCpus }

InitMain ==
    /\ conf = ConfigDefaults
    /\ norm_in = [cpu |-> DefaultPercentCpu, mem |-> DefaultPercentMem]
    /\ pc = "load"
    /\ node_states = <<>>
    /\ api_nodes = 0
    /\ candidates = NoCandidates
    /\ migration_proposals = <<>>
    /\ posts = <<>>
    /\ fetch_error = "none"
    /\ layers \in ScalarLayers \cup ListLayers \cup PercentLayers \cup PairLayers

NextMain == LoadConfigFile \/ ConfigureScalars \/ ConfigureLists \/ Connect \/ Next

SpecMain == InitMain /\ [][NextMain]_vars

-----------------------------------------------------------------------------
(* Claims about one pass, checked under Spec *)

\* The entry of node_states for a node name, and a node's workload by id.
NodeNamed(name) == CHOOSE st \in Range(node_states) : st.name = name

WorkloadOf(st, vmid) == CHOOSE w \in Range(st.workloads) : w.vmid = vmid

\* The workload a spec moves, as the snapshot records it.
Moved(spec) == WorkloadOf(NodeNamed(spec.source), spec.vmid)

\* The node loop is over without a failed telemetry call: node_states is the
\* whole snapshot.
SnapshotComplete == pc \notin {"fetch", "aborted"}

\* C1: for a snapshot of two or more nodes with tolerance * mean(weights) >
\* stdev(weights), no node is classified as source or destination and the
\* planner returns no proposal (so nothing is submitted either).
C1_BalancedYieldsNothing ==
    (/\ SnapshotComplete
     /\ Len(node_states) >= 2
     /\ AllowanceExceedsStdev(node_states, conf.tolerance))
        => /\ pc = "done"
           /\ candidates = NoCandidates
           /\ migration_proposals = <<>>
           /\ posts = <<>>

\* C1 witness: a balanced pass has ended although one node lies above
\* mean + stdev and another below the mean, which would have been classified.
C1_Witness ==
    /\ pc = "done"
    /\ Len(node_states) >= 2
    /\ AllowanceExceedsStdev(node_states, conf.tolerance)
    /\ \E st \in Range(node_states) : AboveMeanPlusStdev(st.weight, node_states)
    /\ \E st \in Range(node_states) : BelowMean(st.weight, node_states)

\* C2: the destination of every emitted MigrationSpec has, in the snapshot,
\* mem_free strictly above the moved workload's mem_used and cpu_free strictly
\* above its cpu_used.
C2_DestinationHasCapacity ==
    \A k \in DOMAIN migration_proposals :
        LET spec == migration_proposals[k]
        IN  /\ \E st \in Range(node_states) : st.name = spec.destination
            /\ \E st \in Range(node_states) :
                  st.name = spec.source /\ \E w \in Range(st.workloads) : w.vmid = spec.vmid
            /\ NodeNamed(spec.destination).mem_free > Moved(spec).mem_used
            /\ NodeNamed(spec.destination).cpu_free > Moved(spec).cpu_max

\* C2 witness: a spec was emitted while a node below the mean lacked the CPU for
\* the moved workload, though not the memory.
C2_Witness ==
    /\ Len(migration_proposals) >= 1
    /\ \E st \in Range(node_states) :
          /\ BelowMean(st.weight, node_states)
          /\ st.mem_free > Moved(migration_proposals[1]).mem_used
          /\ st.cpu_free <= Moved(migration_proposals[1]).cpu_max

\* C3: the source pool and the destination pool are disjoint, no node is the
\* source of one MigrationSpec and the destination of another, and no
\* MigrationSpec has its source as its destination.
C3_SourcesAndDestinationsDisjoint ==
    /\ candidates.source \cap candidates.destination = {}
    /\ \A i, j \in DOMAIN migration_proposals :
          migration_proposals[i].source # migration_proposals[j].destination

\* C3 witness: a pass produced two specs while both pools still held nodes.
C3_Witness ==
    /\ Len(migration_proposals) >= 2
    /\ candidates.destination # {}

\* C4 as stated, for the caps the configuration documents (positive integers):
\* the planner returns at most max_migrations specs and at most max_migrations
\* migrations are started.
C4_AtMostMaxMigrations ==
    conf.max_migrations >= 1
        => /\ Len(migration_proposals) <= conf.max_migrations
           /\ Len(posts) <= conf.max_migrations

\* C5: the planner never returns more than max_migrations + 1 specs, for
\* max_migrations >= 0.
C5_AtMostMaxMigrationsPlusOne ==
    /\ conf.max_migrations >= 0
    /\ Len(migration_proposals) <= conf.max_migrations + 1

\* C5 witness: the planner returned max_migrations + 1 specs and stopped on the
\* cap, with sources and destinations left in the pools.
C5_Witness ==
    /\ pc \in {"execute", "done"}
    /\ Len(migration_proposals) = conf.max_migrations + 1
    /\ candidates.source # {}
    /\ candidates.destination # {}

\* C9: every submission made for a spec goes to the spec's source node for the
\* spec's vmid with the spec's destination as target, a container as an offline
\* move (online=0) and a VM as an online move (online=1).
C9_DispatchByKind ==
    \A k \in DOMAIN posts :
        /\ k \in DOMAIN migration_proposals
        /\ LET spec == migration_proposals[k]
           IN  /\ posts[k].node = spec.source
               /\ posts[k].target = spec.destination
               /\ posts[k].vmid = spec.vmid
               /\ posts[k].kind = spec.kind
               /\ spec.kind = "lxc" => posts[k].online = 0
               /\ spec.kind = "qemu" => posts[k].online = 1

\* C9 witness: a container and a VM were both submitted in one pass.
C9_Witness ==
    /\ \E k \in DOMAIN posts : posts[k].kind = "lxc"
    /\ \E k \in DOMAIN posts : posts[k].kind = "qemu"

\* The submissions so far failed, if at all, as "resource locked" or with a
\* connection error.
OnlyRecoverableFailures ==
    \A k \in DOMAIN posts : posts[k].outcome \in {"ok", "locked", "connection"}

\* C10: whatever submissions fail as "resource locked" or with a connection
\* error, the k-th submission is that of the k-th spec (each spec once, in list
\* order, none retried), the loop goes on after a failure, and the runner ends
\* only when every spec has been submitted.
C10_EverySpecSubmittedOnce ==
    /\ Len(posts) <= Len(migration_proposals)
    /\ \A k \in DOMAIN posts :
          /\ posts[k].vmid = migration_proposals[k].vmid
          /\ posts[k].node = migration_proposals[k].source
          /\ posts[k].target = migration_proposals[k].destination
    /\ (posts # <<>> /\ OnlyRecoverableFailures)
          => /\ pc \in {"execute", "done"}
             /\ pc = "execute" => Len(posts) < Len(migration_proposals)
    /\ (pc = "done" /\ ~conf.dry_run) => Len(posts) = Len(migration_proposals)

\* C10 witness: the pass ended after two submissions, the first rejected as
\* locked and the second lost to a connection error.
C10_Witness ==
    /\ pc = "done"
    /\ Len(posts) = 2
    /\ posts[1].outcome = "locked"
    /\ posts[2].outcome = "connection"

\* C11 as stated: no outcome of one submission ends the batch; once submission
\* has begun the runner stops only when every spec has been submitted.
C11_NoOutcomeFatal ==
    (posts # <<>> /\ pc # "execute") => Len(posts) = Len(migration_proposals)

\* C21: execution failures are not escalated.  Once submission has begun and
\* whatever submissions failed as locked or with a connection error, the process
\* ends only with exit status 0 and only after every spec was submitted; with no
\* proposal it ends with exit status 0 and nothing submitted.
C21_FailuresNotEscalated ==
    /\ (posts # <<>> /\ OnlyRecoverableFailures /\ pc # "execute")
          => /\ pc \in DOMAIN ExitCalls
             /\ ExitCalls[pc] = 0
             /\ Len(posts) = Len(migration_proposals)
    /\ (migration_proposals = <<>> /\ pc \in {"execute", "done", "exited"})
          => /\ ExitCalls[pc] = 0
             /\ posts = <<>>

\* C21 witness: the process has ended with status 0 after two submissions, one
\* accepted and one rejected as locked.
C21_Witness ==
    /\ pc = "done"
    /\ ExitCalls[pc] = 0
    /\ Len(posts) = Len(migration_proposals)
    /\ {posts[k].outcome : k \in DOMAIN posts} = {"ok", "locked"}

\* The case without proposals is reached as well: an unbalanced cluster for which
\* the planner returned nothing.
C21_CaseNoProposal ==
    /\ pc = "done"
    /\ candidates # NoCandidates
    /\ migration_proposals = <<>>
    /\ posts = <<>>

\* C28: get_migration_candidates completes and returns a (possibly empty) list
\* of proposals for every unbalanced snapshot of two or more nodes, also when a
\* selected source hosts no eligible running workload: from the classification
\* on, every step of the planner is another iteration or the return, never an
\* exception.
C28_PlannerCompletes ==
    [][ ( /\ pc = "plan"
          /\ Len(node_states) >= 2
          /\ ~ClusterIsBalanced(node_states, conf) )
        => pc' \in {"plan", "done", "execute"} ]_vars

\* The case of C28: the heaviest source runs nothing eligible (its only running
\* workload is excluded by id), and the pass is over with the exception of
\* sorted(...)[0], the source still in the pool and no proposal returned.
C28_SourceWithoutWorkload ==
    ~ ( /\ pc = "crashed"
        /\ posts = <<>>
        /\ \E k \in DOMAIN node_states :
              /\ node_states[k].name \in candidates.source
              /\ node_states[k].workloads = <<>>
              /\ \A j \in DOMAIN node_states :
                    node_states[j].name \in candidates.source
                        => node_states[j].weight <= node_states[k].weight )

\* C12: under a configuration with dry_run enabled no migrate.post call is ever
\* made and the submission loop is never entered, however many specs the planner
\* returned.
C12_DryRunSubmitsNothing ==
    conf.dry_run => (posts = <<>> /\ pc # "execute")

\* C12 witness: a dry run ended with two specs planned.
C12_Witness ==
    /\ conf.dry_run
    /\ pc = "done"
    /\ Len(migration_proposals) >= 2

\* Every node name that occurs in the snapshot, the pools, the specs or the
\* submissions.
NamesInPlay ==
    {st.name : st \in Range(node_states)}
    \cup candidates.source \cup candidates.destination
    \cup {spec.source : spec \in Range(migration_proposals)}
    \cup {spec.destination : spec \in Range(migration_proposals)}
    \cup {p.node : p \in Range(posts)} \cup {p.target : p \in Range(posts)}

\* C14: a node named in exclude_nodes is never in the snapshot (whose weights are
\* all that the mean and the stdev are taken of), never in a pool, and never the
\* source or the destination of a spec or of a submission.
C14_ExcludedNodeNeverAppears ==
    NamesInPlay \cap Range(conf.exclude_nodes) = {}

\* C14 witness: node 2 is excluded, the loop has passed it, and a spec was planned
\* among the nodes around it.
C14_Witness ==
    /\ 2 \in Range(conf.exclude_nodes)
    /\ api_nodes >= 3
    /\ Len(migration_proposals) >= 1

\* C15 as stated: every workload of the snapshot (so every workload a spec can
\* name) was reported as running, has a kind that is not excluded, and has an id
\* that no item of exclude_vmids names.
C15_OnlyEligibleWorkloads ==
    \A st \in Range(node_states) : \A w \in Range(st.workloads) :
        /\ w.status = "running"
        /\ w.kind \notin Range(conf.exclude_types)
        /\ \A item \in Range(conf.exclude_vmids) : item.id # w.vmid

\* C17: once a telemetry call has failed the pass is over: nothing is classified,
\* no spec is produced and nothing is submitted, then or later.
C17_FetchErrorAbandonsPass ==
    fetch_error # "none"
        => /\ pc = "aborted"
           /\ candidates = NoCandidates
           /\ migration_proposals = <<>>
           /\ posts = <<>>

\* C17 witness: a workload listing failed when the nodes read so far already
\* formed an unbalanced snapshot with a source and a destination in it.
C17_Witness ==
    /\ fetch_error = "qemu"
    /\ Len(node_states) >= 2
    /\ ~AllowanceExceedsStdev(node_states, conf.tolerance)
    /\ \E st \in Range(node_states) : AboveMeanPlusStdev(st.weight, node_states)
    /\ \E st \in Range(node_states) : BelowMean(st.weight, node_states)

\* For the k-th node of the snapshot: n * weight - sum(weights), whose sign is
\* that of weight - mean; and n * (n - 1) * stdev^2.
C19_Excess(k) == Len(node_states) * node_states[k].weight - WeightSum(node_states)

C19_Spread == Len(node_states) * WeightSumSq(node_states)
                  - WeightSum(node_states) * WeightSum(node_states)

C19_AboveBand(k) ==
    /\ C19_Excess(k) > 0
    /\ C19_Excess(k) * C19_Excess(k) * (Len(node_states) - 1) > Len(node_states) * C19_Spread

\* C19: the step that classifies (the cluster was found unbalanced) makes a node
\* a destination candidate iff weight < mean and a source candidate iff
\* weight > mean + stdev; a node with mean <= weight <= mean + stdev is neither.
C19_ClassificationExact ==
    [][ (pc = "fetch" /\ pc' = "plan") =>
           \A k \in DOMAIN node_states :
               /\ (node_states[k].name \in candidates'.destination) <=> (C19_Excess(k) < 0)
               /\ (node_states[k].name \in candidates'.source) <=> C19_AboveBand(k)
               /\ (C19_Excess(k) >= 0 /\ ~C19_AboveBand(k))
                     => node_states[k].name \notin candidates'.source \cup candidates'.destination
      ]_vars

\* C19 witness: the classification has just been made, with a source, a
\* destination, and a node above the mean but within one stdev of it in neither.
C19_Witness ==
    /\ pc = "plan"
    /\ migration_proposals = <<>>
    /\ candidates.source # {}
    /\ candidates.destination # {}
    /\ \E k \in DOMAIN node_states :
          /\ C19_Excess(k) > 0
          /\ ~C19_AboveBand(k)
          /\ node_states[k].name \notin candidates.source \cup candidates.destination

\* A snapshot of two nodes with the given weights.
SnapshotOfTwo(w1, w2) == << [name |-> 1, weight |-> w1], [name |-> 2, weight |-> w2] >>

\* C29: in a snapshot of exactly two nodes no node satisfies
\* weight > mean + sample stdev, whatever the two weights, so for every tolerance
\* the planner returns no proposal (and nothing is submitted): a two-node
\* cluster is never rebalanced.
C29_TwoNodesNeverRebalanced ==
    /\ (SnapshotComplete /\ Len(node_states) = 2)
          => /\ candidates.source = {}
             /\ migration_proposals = <<>>
             /\ posts = <<>>
    /\ (pc = "plan" /\ Len(node_states) = 2)
          => \A w1, w2 \in -MaxWeight..MaxWeight :
                /\ Classify(SnapshotOfTwo(w1, w2)).source = {}
                /\ ~IsSource([weight |-> w1], SnapshotOfTwo(w1, w2))

\* C29 witness: two nodes were read, the cluster was found unbalanced under the
\* default tolerance, the lighter node became a destination with room for a
\* workload of the heavier one, and the pass ended without a proposal.
C29_Witness ==
    /\ pc = "done"
    /\ api_nodes = 2
    /\ Len(node_states) = 2
    /\ conf.tolerance = ConfigDefaults.tolerance
    /\ ~conf.dry_run
    /\ ~ClusterIsBalanced(node_states, conf)
    /\ node_states[1].weight > node_states[2].weight
    /\ candidates = [source |-> {}, destination |-> {2}]
    /\ \E k \in DOMAIN node_states[1].workloads :
          Fits(node_states[2], node_states[1].workloads[k])
    /\ migration_proposals = <<>>
    /\ posts = <<>>

-----------------------------------------------------------------------------
(* Claims about the node weight, checked under SpecOverload *)

\* The readings the weight is claimed for: positive clock speed, core count and
\* total memory, non-negative load averages, used memory and shared memory.
ReadingInRange(st) ==
    /\ st.mhz > 0 /\ st.cores > 0 /\ st.mem_total > 0
    /\ \A k \in DOMAIN st.loadavg : st.loadavg[k] >= 0
    /\ st.mem_used >= 0 /\ st.ksm >= 0

\* C27: for every node of the snapshot the weight computed by get_node_state is
\* a non-negative integer, whenever the telemetry readings have a positive
\* clock speed, core count and total memory and non-negative load averages,
\* used memory and shared memory.
C27_WeightNonNegative ==
    (\A prof \in OverloadProfiles : ReadingInRange(prof.status))
        => \A k \in DOMAIN node_states :
              node_states[k].weight \in Nat

\* The overloaded node weighs -80 (w_cpu -160, w_mem 80): the lightest node of
\* the snapshot, and so a destination of the classification.
C27_OverloadedIsDestination ==
    ~ \E k \in DOMAIN node_states :
          /\ node_states[k].weight = -80
          /\ node_states[k].cpu_free < 0
          /\ node_states[k].name \in candidates.destination

-----------------------------------------------------------------------------
(* Claims about the planner loop, checked under SpecPlanner and SpecPlannerFair *)

\* A step that is one iteration of the planner loop run to its end.
PlannerIteration == pc = "plan" /\ pc' = "plan"

\* The iteration appended a spec to migration_proposals.
Emitted == Len(migration_proposals') = Len(migration_proposals) + 1

NewSpec == migration_proposals'[Len(migration_proposals')]

\* The position in the snapshot of the source candidate of maximum weight, the
\* first seen among equals.
HeaviestSource ==
    CHOOSE k \in DOMAIN node_states :
        /\ node_states[k].name \in candidates.source
        /\ \A j \in DOMAIN node_states :
              node_states[j].name \in candidates.source
                 => \/ node_states[j].weight < node_states[k].weight
                    \/ node_states[j].weight = node_states[k].weight /\ j >= k

\* The workload of minimum weight of a node that runs some, the first seen among
\* equals.
LightestOf(st) ==
    LET k == CHOOSE i \in DOMAIN st.workloads :
                 \A j \in DOMAIN st.workloads :
                     \/ st.workloads[j].weight > st.workloads[i].weight
                     \/ st.workloads[j].weight = st.workloads[i].weight /\ j >= i
    IN  st.workloads[k]

\* The capacity test of the specification: free memory above the workload's used
\* memory and free CPU above its used CPU.
Passes(st, w) == st.mem_free > w.mem_used /\ st.cpu_free > w.cpu_max

\* The selected workload passes the capacity test on no destination in the pool.
NoRoomAnywhere ==
    \A st \in Range(node_states) :
        st.name \in candidates.destination
           => ~Passes(st, LightestOf(node_states[HeaviestSource]))

\* C22: every planner iteration takes the remaining source candidate of maximum
\* weight (the first seen among equal weights) out of the pool, whether or not it
\* emits a spec, and a spec it emits has that node as its source; so no node is
\* the source of two specs and the specs are listed by non-increasing source
\* weight.
C22_SourceByDescendingWeight ==
    /\ [][ PlannerIteration =>
             /\ candidates.source # {}
             /\ candidates'.source = candidates.source \ {node_states[HeaviestSource].name}
             /\ Emitted => NewSpec.source = node_states[HeaviestSource].name
         ]_vars
    /\ [](\A i, j \in DOMAIN migration_proposals :
             i < j => /\ migration_proposals[i].source # migration_proposals[j].source
                      /\ NodeNamed(migration_proposals[i].source).weight
                            >= NodeNamed(migration_proposals[j].source).weight)

\* C22 witness: two specs were planned, the first from a heavier source than the
\* second.
C22_Witness ==
    /\ Len(migration_proposals) = 2
    /\ NodeNamed(migration_proposals[1].source).weight
          > NodeNamed(migration_proposals[2].source).weight

\* Sources of equal weight are reached too: the one seen first is planned first.
C22_CaseTie ==
    /\ Len(migration_proposals) = 2
    /\ NodeNamed(migration_proposals[1].source).weight
          = NodeNamed(migration_proposals[2].source).weight
    /\ migration_proposals[1].source < migration_proposals[2].source

\* C23: the workload a spec names is a workload of the spec's source of minimum
\* weight, the first seen among equal weights.  No other workload of a source is
\* ever in a spec, whatever fits where.
C23_LightestWorkloadMoved ==
    \A k \in DOMAIN migration_proposals :
        LET spec == migration_proposals[k]
        IN  /\ \E st \in Range(node_states) : st.name = spec.source /\ st.workloads # <<>>
            /\ spec.vmid = LightestOf(NodeNamed(spec.source)).vmid
            /\ spec.name = LightestOf(NodeNamed(spec.source)).name
            /\ spec.kind = LightestOf(NodeNamed(spec.source)).kind

\* C23 witness: a spec names the first of two workloads of equal weight, and a
\* source was left without a spec although a workload of it other than its
\* lightest passes the capacity test on a destination still in the pool.
C23_Witness ==
    /\ pc \in {"execute", "done"}
    /\ \E spec \in Range(migration_proposals) :
          \E w \in Range(NodeNamed(spec.source).workloads) :
              /\ w.vmid # spec.vmid
              /\ w.weight = Moved(spec).weight
    /\ \E st \in Range(node_states) :
          /\ AboveMeanPlusStdev(st.weight, node_states)
          /\ st.name \notin candidates.source
          /\ \A spec \in Range(migration_proposals) : spec.source # st.name
          /\ \E w \in Range(st.workloads), d \in Range(node_states) :
                d.name \in candidates.destination /\ Passes(d, w)

\* C24: the destination of an emitted spec was in the pool and leaves it, and no
\* destination of the pool with strictly lower weight passed the capacity test
\* for the spec's workload; so no node is the destination of two specs.
C24_FirstFitAscending ==
    /\ [][ (PlannerIteration /\ Emitted) =>
             /\ NewSpec.destination \in candidates.destination
             /\ candidates'.destination = candidates.destination \ {NewSpec.destination}
             /\ \A st \in Range(node_states) :
                   (/\ st.name \in candidates.destination
                    /\ st.weight < NodeNamed(NewSpec.destination).weight)
                      => ~Passes(st, WorkloadOf(NodeNamed(NewSpec.source), NewSpec.vmid))
         ]_vars
    /\ [](\A i, j \in DOMAIN migration_proposals :
             i # j => migration_proposals[i].destination # migration_proposals[j].destination)

\* C24 witness: two specs were planned, and a destination lighter than that of
\* the first is still in the pool, having failed the capacity test.
C24_Witness ==
    /\ Len(migration_proposals) = 2
    /\ \E st \in Range(node_states) :
          /\ st.name \in candidates.destination
          /\ st.weight < NodeNamed(migration_proposals[1].destination).weight
          /\ ~Passes(st, Moved(migration_proposals[1]))

\* C25: an iteration whose selected workload passes the capacity test on no
\* remaining destination emits no spec and leaves the destination pool and the
\* spec list as they were, while the source leaves the source pool; and the
\* source pool never takes a node back.
C25_RejectionConsumesSource ==
    /\ [][ (PlannerIteration /\ NoRoomAnywhere) =>
             /\ migration_proposals' = migration_proposals
             /\ candidates'.destination = candidates.destination
             /\ node_states[HeaviestSource].name \notin candidates'.source
         ]_vars
    /\ [][ pc = "plan" => candidates'.source \subseteq candidates.source ]_vars

\* C25 witness: the planner returned after a source was rejected: the node is a
\* source by its weight, is in no spec and is no longer in the pool, and the
\* destinations it was tested on are all still in the pool.
C25_Witness ==
    /\ pc \in {"execute", "done"}
    /\ candidates.destination # {}
    /\ \E st \in Range(node_states) :
          /\ AboveMeanPlusStdev(st.weight, node_states)
          /\ st.workloads # <<>>
          /\ st.name \notin candidates.source
          /\ \A spec \in Range(migration_proposals) : spec.source # st.name
          /\ \A d \in Range(node_states) :
                d.name \in candidates.destination => ~Passes(d, LightestOf(st))

\* The pools as the classification made them, before any iteration.
SourceCandidates == Classify(node_states).source

DestinationCandidates == Classify(node_states).destination

\* The iterations the planner loop has run: each takes one node from the source
\* pool.
IterationsRun == Cardinality(SourceCandidates) - Cardinality(candidates.source)

\* Once the classification is made: the iterations run are at most |source
\* candidates| and the specs at most one per iteration and at most
\* min(|source candidates|, |destination candidates|).
PlannerWithinBounds ==
    pc \in {"plan", "execute", "done"}
        => /\ candidates.source \subseteq SourceCandidates
           /\ IterationsRun <= Cardinality(SourceCandidates)
           /\ Len(migration_proposals) <= IterationsRun
           /\ Len(migration_proposals)
                 <= Min(Cardinality(SourceCandidates), Cardinality(DestinationCandidates))

C26_IterationsBounded ==
    /\ [][ PlannerIteration =>
             /\ Cardinality(candidates'.source) < Cardinality(candidates.source)
             /\ candidates.source # {}
             /\ candidates.destination # {}
             /\ Len(migration_proposals) <= conf.max_migrations
         ]_vars
    /\ []PlannerWithinBounds

C26_CaseCap ==
    /\ pc \in {"execute", "done"}
    /\ candidates.source # {}
    /\ candidates.destination # {}
    /\ Len(migration_proposals) > conf.max_migrations

-----------------------------------------------------------------------------
(* The worked example, checked under SpecExample *)

\* node_states holds exactly three nodes, of weights 150, 80 and 40.
ExampleWeights ==
    /\ Len(node_states) = 3
    /\ {node_states[k].weight : k \in DOMAIN node_states} = {150, 80, 40}

NodeWeighing(weight) == CHOOSE st \in Range(node_states) : st.weight = weight

\* The workload of A that no other workload of A weighs less than.
ExampleLightest ==
    CHOOSE w \in Range(NodeWeighing(150).workloads) :
        \A other \in Range(NodeWeighing(150).workloads) : w.weight <= other.weight

\* The capacity test of the example's lightest workload against a node.
ExampleRoomOn(st) ==
    /\ st.mem_free > ExampleLightest.mem_used
    /\ st.cpu_free > ExampleLightest.cpu_max

ExampleMove(st) ==
    MigrationSpec(NodeWeighing(150).name, st.name, ExampleLightest.name,
                  ExampleLightest.vmid, ExampleLightest.kind)

\* What the planner is to return: A -> C if C has room, else A -> B if B has,
\* else nothing.
ExampleExpected ==
    IF ExampleRoomOn(NodeWeighing(40)) THEN <<ExampleMove(NodeWeighing(40))>>
    ELSE IF ExampleRoomOn(NodeWeighing(80)) THEN <<ExampleMove(NodeWeighing(80))>>
    ELSE <<>>

\* C20: for a snapshot of three nodes weighing A=150, B=80, C=40 under tolerance
\* 0.2 (A running at least one workload), the analysis goes on to classify, with
\* sources exactly {A} and destinations exactly {B, C}, and the planner returns
\* exactly the one spec moving A's lowest-weight workload to C if C passes the
\* capacity test, else to B if B passes it, else no spec.
C20_WorkedExample ==
    /\ []( (ExampleWeights /\ pc \in {"plan", "execute", "done", "crashed"})
             => /\ NodeWeighing(150).workloads # <<>>
                /\ pc = "plan" => migration_proposals \in {<<>>, ExampleExpected}
                /\ pc # "plan" => migration_proposals = ExampleExpected )
    /\ [][ (ExampleWeights /\ pc = "fetch" /\ pc' \notin {"fetch", "aborted"})
             => /\ pc' = "plan"
                /\ candidates' = [ source      |-> {NodeWeighing(150).name},
                                   destination |-> {NodeWeighing(80).name,
                                                    NodeWeighing(40).name} ]
         ]_vars

\* C20 witness: the planner has returned A -> B, C lacking the room and B having it.
C20_Witness ==
    /\ ExampleWeights
    /\ pc \in {"execute", "done"}
    /\ ~ExampleRoomOn(NodeWeighing(40))
    /\ ExampleRoomOn(NodeWeighing(80))
    /\ migration_proposals = <<ExampleMove(NodeWeighing(80))>>

\* The other two cases of the example are reached as well: A -> C, and no spec.
C20_CaseToC ==
    /\ ExampleWeights
    /\ pc \in {"execute", "done"}
    /\ ExampleRoomOn(NodeWeighing(40))
    /\ ExampleRoomOn(NodeWeighing(80))
    /\ migration_proposals = <<ExampleMove(NodeWeighing(40))>>

C20_CaseNone ==
    /\ ExampleWeights
    /\ pc = "done"
    /\ ~ExampleRoomOn(NodeWeighing(40))
    /\ ~ExampleRoomOn(NodeWeighing(80))
    /\ migration_proposals = <<>>

-----------------------------------------------------------------------------
(* Claims about the configuration section of main, checked under SpecMain *)

\* A layer provides a setting explicitly: the command line provides dry_run when
\* --dry-run is on it, the file when it was read and lists the key.
ArgsProvide(var) ==
    IF var = "dry_run" THEN layers.args.dry_run ELSE Gives(layers.args, var)

EnvProvides(var) == Gives(layers.env, var)

FileProvides(var) == layers.file.status = "ok" /\ Gives(layers.file.items, var)

Provided(var) == ArgsProvide(var) \/ EnvProvides(var) \/ FileProvides(var)

\* The value of the highest layer that provides the setting.
ByPrecedence(var) ==
    IF ArgsProvide(var) THEN layers.args[var]
    ELSE IF EnvProvides(var) THEN layers.env[var]
    ELSE IF FileProvides(var) THEN layers.file.items[var]
    ELSE ConfigDefaults[var]

\* C13: the layers are merged with precedence CLI > environment > file >
\* defaults: once the scalars are configured, every scalar setting has the value
\* of the highest layer that explicitly provides it, and a layer that does not
\* provide it leaves the lower layer's value in effect.  (A proportion no layer
\* provides is left to the normalisation of the pair.)
C13_PrecedenceHolds ==
    pc = "lists" =>
        \A k \in DOMAIN ScalarVars :
            (Provided(ScalarVars[k]) \/ ScalarVars[k] \notin {"percent_cpu", "percent_mem"})
                => conf[ScalarVars[k]] = ByPrecedence(ScalarVars[k])

\* The run C13 fails on: the file says dry_run: true, neither the environment nor
\* the command line mentions dry_run, and the configured dry_run is False.
C13_FileDryRunLost ==
    /\ pc = "lists"
    /\ FileProvides("dry_run") /\ layers.file.items.dry_run
    /\ ~EnvProvides("dry_run") /\ ~ArgsProvide("dry_run")
    /\ conf.dry_run = FALSE

\* No option of either layer takes an item out of an exclusion list again.
NoIncludeGiven ==
    \A k \in DOMAIN ListSettings :
        ~Gives(layers.env, ListSettings[k].env_in) /\ ~Gives(layers.args, ListSettings[k].arg_in)

\* C16: after configuration every item given by an --exclude-node option is in
\* exclude_nodes, for any number of such options on one command line (likewise
\* --exclude-vmid and --exclude-type), and the items the file or the environment
\* excluded stay excluded.
C16_EveryCliExclusionKept ==
    (pc = "connect" /\ NoIncludeGiven) =>
        \A k \in DOMAIN ListSettings :
            LET s == ListSettings[k]
            IN  /\ Gives(layers.args, s.arg_ex)
                     => Range(layers.args[s.arg_ex]) \subseteq Range(conf[s.list])
                /\ Gives(layers.env, s.list)
                     => Range(layers.env[s.list]) \subseteq Range(conf[s.list])
                /\ FileProvides(s.list)
                     => Range(layers.file.items[s.list]) \subseteq Range(conf[s.list])

\* The run C16 fails on: two --exclude-node options naming nodes not yet
\* excluded, of which only the second is in exclude_nodes.
C16_FirstOptionLost ==
    /\ pc = "connect"
    /\ NoIncludeGiven
    /\ Gives(layers.args, "exclude_node")
    /\ Len(layers.args.exclude_node) = 2
    /\ layers.args.exclude_node[1] \notin Range(conf.exclude_nodes)
    /\ layers.args.exclude_node[2] \in Range(conf.exclude_nodes)

\* C18: if a configuration file named by --config-file or CSLB_CONFIG_FILE
\* cannot be opened or parsed, the pass does not start: main ends in the
\* configuration section, with no telemetry fetched and no migration submitted.
C18_ConfigErrorStopsPass ==
    (layers.file.named # "none" /\ layers.file.status # "ok")
        => /\ pc \in {"load", "crashed"}
           /\ api_nodes = 0
           /\ node_states = <<>>
           /\ fetch_error = "none"
           /\ migration_proposals = <<>>
           /\ posts = <<>>

\* C18 witness: main has ended on a file named in CSLB_CONFIG_FILE that does not
\* parse.
C18_Witness ==
    /\ pc = "crashed"
    /\ layers.file.named = "env"
    /\ layers.file.status = "unparsable"
    /\ api_nodes = 0
    /\ posts = <<>>

\* The file named on the command line that cannot be opened ends main as well.
C18_CaseMissing ==
    /\ pc = "crashed"
    /\ layers.file.named = "cli"
    /\ layers.file.status = "missing"

\* The command line assigns a valid pair: percent_cpu := c, then percent_mem := m,
\* with 0 <= c, m <= 1 and c + m = 1, and the environment assigns neither.
ValidPairAssigned ==
    /\ Gives(layers.args, "percent_cpu") /\ Gives(layers.args, "percent_mem")
    /\ ~Gives(layers.env, "percent_cpu") /\ ~Gives(layers.env, "percent_mem")
    /\ layers.args.percent_cpu \in 0..One
    /\ layers.args.percent_mem \in 0..One
    /\ layers.args.percent_cpu + layers.args.percent_mem = One

\* C30: a valid pair is honoured whatever the normalised configuration it is
\* assigned over: once percent_cpu := c and then percent_mem := m have run, with
\* c + m = 1, the configuration holds exactly percent_cpu = c and percent_mem = m.
C30_ValidPairHonoured ==
    (pc \in {"lists", "connect"} /\ ValidPairAssigned)
        => /\ conf.percent_cpu = layers.args.percent_cpu
           /\ conf.percent_mem = layers.args.percent_mem

\* The example of C30: 0.5 and 0.5 assigned over the defaults leave 0.4 and 0.6.
C30_HalvesOverDefaults ==
    ~ ( /\ pc = "lists"
        /\ ValidPairAssigned
        /\ layers.file = NoLayers.file
        /\ layers.args.percent_cpu = Half
        /\ layers.args.percent_mem = Half
        /\ conf.percent_cpu = DefaultPercentCpu
        /\ conf.percent_mem = DefaultPercentMem )

-----------------------------------------------------------------------------
(* Claims about the Config object, checked under SpecConfig *)

\* The larger and the smaller member of the pair handed to balance_resource_weights.
InLarger == Max(norm_in.cpu, norm_in.mem)

InSmaller == Min(norm_in.cpu, norm_in.mem)

\* What is stored afterwards in the slot that held the larger / the smaller member.
OutOfLarger == IF norm_in.cpu > norm_in.mem THEN conf.percent_cpu ELSE conf.percent_mem

OutOfSmaller == IF norm_in.cpu > norm_in.mem THEN conf.percent_mem ELSE conf.percent_cpu

\* C6: after any sequence of assignments to percent_cpu and percent_mem, starting
\* from the defaults 0.4/0.6, the stored proportions sum to exactly 1.
C6_SumIsOne == conf.percent_cpu + conf.percent_mem = One

\* C6 witness: an assignment handed balance_resource_weights a pair that did not
\* sum to 1, and the stored pair differs from the defaults.
C6_Witness ==
    /\ norm_in.cpu + norm_in.mem # One
    /\ norm_in.cpu < 0
    /\ conf.percent_cpu # DefaultPercentCpu

\* C7 as stated: for unequal proportions summing to less than 1 the larger value is
\* kept and the smaller is raised to 1 - larger.
C7_Original ==
    (norm_in.cpu # norm_in.mem /\ norm_in.cpu + norm_in.mem < One)
        => (OutOfLarger = InLarger /\ OutOfSmaller = One - InLarger)

\* C7 as amended: for unequal proportions summing to less than 1 the smaller value
\* is kept and the larger is raised to 1 - smaller; (0.8, 0.1) becomes (0.9, 0.1).
C7_DeficitRaisesLarger ==
    (norm_in.cpu # norm_in.mem /\ norm_in.cpu + norm_in.mem < One)
        => (OutOfSmaller = InSmaller /\ OutOfLarger = One - InSmaller)

\* C7 witness: the pair (0.8, 0.1) was normalised, to (0.9, 0.1).
C7_Witness ==
    /\ norm_in = [cpu |-> 8, mem |-> 1]
    /\ conf.percent_cpu = 9
    /\ conf.percent_mem = 1

\* C8: for proportions summing to more than 1, equal values both become 0.5;
\* otherwise the larger is clamped to at most 1 and the other becomes 1 - that.
C8_SurplusKeepsLarger ==
    (norm_in.cpu + norm_in.mem > One)
        => IF norm_in.cpu = norm_in.mem
           THEN conf.percent_cpu = Half /\ conf.percent_mem = Half
           ELSE /\ OutOfLarger = Min(InLarger, One)
                /\ OutOfSmaller = One - Min(InLarger, One)

\* C8 witness: a surplus pair whose larger member exceeds 1 was normalised, the
\* clamp giving (1, 0).
C8_Witness ==
    /\ norm_in.cpu + norm_in.mem > One
    /\ norm_in.mem > One
    /\ norm_in.cpu # norm_in.mem
    /\ conf.percent_mem = One
    /\ conf.percent_cpu = 0

\* The example (0.9, 0.9) -> (0.5, 0.5) of C8 is reached as well.
C8_EqualExample ==
    /\ norm_in = [cpu |-> 9, mem |-> 9]
    /\ conf.percent_cpu = Half
    /\ conf.percent_mem = Half

====
